---- MODULE Spec2Model ----
(***************************************************************************)
(* Wildcard-aware hostname matcher of pilot/pkg/model/radix.go.            *)
(*                                                                         *)
(* A hostname is a sequence of one-character strings.  The matcher keeps   *)
(* a reference (r.radix) to one version of an immutable radix tree whose   *)
(* keys are wildcard-stripped, reversed hostnames.  The tree is modelled   *)
(* as the set of its leaves [key, val]; the three tree operations the      *)
(* matcher calls (Insert, LongestPrefix, WalkPrefix) are modelled by what  *)
(* they return for that set of leaves.                                     *)
(***************************************************************************)
EXTENDS Integers, Sequences, FiniteSets

\* ---------------------------------------------------------------- bounds
MaxLen == 2
MaxStars == 1
MaxInserts == 2

Alphabet == {"a", "b"}
Star == "*"
Chars == Alphabet \cup {Star}
Configs == {"A", "B"}
\* Config{} : what a failed type assertion v.(Config) yields
ZeroConfig == "zero"
\* the nil interface value / nil tree value
Nil == "nil"

\* ------------------------------------------------------------ key codec
Contains(s, ch) == \E i \in 1..Len(s) : s[i] = ch

Replace(s, ch) == SelectSeq(s, LAMBDA x : x # ch)

RECURSIVE reverseLoop(_, _)
reverseLoop(data, i) ==
  IF i < Len(data) \div 2
    THEN reverseLoop([data EXCEPT ![i + 1] = data[Len(data) - i],
                                  ![Len(data) - i] = data[i + 1]], i + 1)
    ELSE data

\* the swap loop never runs
reverseNoop(data) == data

reverse(data) == reverseLoop(data, 0)

toKey(hostname) == reverse(Replace(hostname, Star))

\* the key is handed back still reversed
fromKeyRaw(key) == key

fromKey(key) == reverse(key)

\* ------------------------------------------------- immutable radix tree
HasPrefix(s, prefix) ==
  /\ Len(prefix) <= Len(s)
  /\ \A i \in 1..Len(prefix) : s[i] = prefix[i]

TreeNew == {}

TreeInsert(t, k, v) == {e \in t : e.key # k} \cup {[key |-> k, val |-> v]}

WalkPrefix(t, prefix) == {e \in t : HasPrefix(e.key, prefix)}

LongestPrefix(t, k) ==
  LET under == {e \in t : HasPrefix(k, e.key)}
  IN  IF under = {}
        THEN [key |-> <<>>, val |-> Nil, found |-> FALSE]
        ELSE LET last == CHOOSE e \in under :
                           \A f \in under : Len(f.key) <= Len(e.key)
             IN  [key |-> last.key, val |-> last.val, found |-> TRUE]

\* ---------------------------------------------------------------- Insert
\* "pick the oldest config": a key that is already stored keeps its config
InsertKeepOldest(root, host, config) ==
  IF \E e \in root : e.key = toKey(host)
    THEN root
    ELSE TreeInsert(root, toKey(host), config)

\* the new version is built on a fresh tree instead of the current one
InsertFresh(root, host, config) == TreeInsert(TreeNew, toKey(host), config)

\* line 89, right-hand side: the tree r.radix.Insert returns
InsertTree(root, host, config) == TreeInsert(root, toKey(host), config)

\* ---------------------------------------------------------------- Lookup
AsConfig(v) == IF v \in Configs THEN v ELSE ZeroConfig

EmptyMap == [h \in {} |-> ZeroConfig]

MapPut(m, k, v) == [x \in DOMAIN m \cup {k} |-> IF x = k THEN v ELSE m[x]]

\* the walk callback stops the walk after the first leaf
LookupWalkFirst(root, host) ==
  IF Contains(host, Star) /\ WalkPrefix(root, toKey(host)) # {}
    THEN LET first == CHOOSE e \in WalkPrefix(root, toKey(host)) : TRUE
         IN  [h \in {fromKey(first.key)} |-> AsConfig(first.val)]
    ELSE EmptyMap

\* lines 69-75: the walk under the query's key, run on one tree version
LookupWalk(root, host) ==
  IF Contains(host, Star)
    THEN LET W == WalkPrefix(root, toKey(host))
         IN  [h \in {fromKey(e.key) : e \in W} |->
                AsConfig((CHOOSE e \in W : fromKey(e.key) = h).val)]
    ELSE EmptyMap

\* the fallback is skipped for every wildcard query
LookupLongestNoFallback(cfgs, root, host) ==
  IF ~Contains(host, Star)
    THEN LET lp == LongestPrefix(root, toKey(host))
         IN  MapPut(cfgs, fromKey(lp.key), AsConfig(lp.val))
    ELSE cfgs

\* the fallback entry is added to every result
LookupLongestAlways(cfgs, root, host) ==
  LET lp == LongestPrefix(root, toKey(host))
  IN  MapPut(cfgs, fromKey(lp.key), AsConfig(lp.val))

\* the found flag of LongestPrefix is honoured
LookupLongestChecked(cfgs, root, host) ==
  IF ~Contains(host, Star) \/ Cardinality(DOMAIN cfgs) = 0
    THEN LET lp == LongestPrefix(root, toKey(host))
         IN  IF lp.found
               THEN MapPut(cfgs, fromKey(lp.key), AsConfig(lp.val))
               ELSE cfgs
    ELSE cfgs

\* lines 79-83: the longest-prefix fallback, run on one tree version
LookupLongest(cfgs, root, host) ==
  IF ~Contains(host, Star) \/ Cardinality(DOMAIN cfgs) = 0
    THEN LET lp == LongestPrefix(root, toKey(host))
         IN  MapPut(cfgs, fromKey(lp.key), AsConfig(lp.val))
    ELSE cfgs

Lookup(root, host) == LookupLongest(LookupWalk(root, host), root, host)

\* ---------------------------------------------------------------- inputs
Hostnames ==
  {h \in UNION {[1..n -> Chars] : n \in 0..(MaxLen + MaxStars)} :
     /\ Len(Replace(h, Star)) <= MaxLen
     /\ Len(h) - Len(Replace(h, Star)) <= MaxStars}

NoHost == <<Nil>>

\* ----------------------------------------------------------------- state
\* radix     r.radix, the current tree version
\* pc        position of the caller of Lookup
\* hostname  the query of the Lookup in progress or just returned
\* configs   the local map of that Lookup
\* inserts   number of Insert calls so far
\* lastCfg   history: stripped pattern -> config of the last returned Insert
\* replaced  history: the last overwrite, <<stripped pattern, old config>>
\* seen      history: tree versions r.radix held during the Lookup in flight
\* wpc, wnew, warg, wbase   concurrent writers: position, the tree built by
\*           r.radix.Insert, the call's stripped pattern and config, and the
\*           version it was built from
\* raced     history: some writer stored over a version it had not read
VARIABLES radix, pc, hostname, configs, inserts, lastCfg, replaced,
          seen, wpc, wnew, warg, wbase, raced

vars == <<radix, pc, hostname, configs, inserts, lastCfg, replaced,
          seen, wpc, wnew, warg, wbase, raced>>

reader == <<pc, hostname, configs, seen>>
history == <<lastCfg, replaced>>
writers == <<wpc, wnew, warg, wbase, raced>>

Writers == {"w1", "w2"}

Init ==
  /\ radix = TreeNew
  /\ pc = "idle"
  /\ hostname = NoHost
  /\ configs = EmptyMap
  /\ inserts = 0
  /\ lastCfg = EmptyMap
  /\ replaced = <<NoHost, Nil>>
  /\ seen = {}
  /\ wpc = [w \in Writers |-> "idle"]
  /\ wnew = [w \in Writers |-> TreeNew]
  /\ warg = [w \in Writers |-> <<NoHost, Nil>>]
  /\ wbase = [w \in Writers |-> TreeNew]
  /\ raced = FALSE

Record(k, c) ==
  /\ lastCfg' = MapPut(lastCfg, k, c)
  /\ replaced' = IF k \in DOMAIN lastCfg THEN <<k, lastCfg[k]>> ELSE replaced

\* ------------------------------------------- one caller, one call at a time
Insert ==
  /\ pc = "idle"
  /\ inserts < MaxInserts
  /\ \E p \in Hostnames, c \in Configs :
       /\ radix' = InsertTree(radix, p, c)
       /\ Record(Replace(p, Star), c)
  /\ inserts' = inserts + 1
  /\ UNCHANGED <<reader, writers>>

LookupCall ==
  /\ pc = "idle"
  /\ \E q \in Hostnames :
       /\ hostname' = q
       /\ configs' = Lookup(radix, q)
  /\ pc' = "returned"
  /\ UNCHANGED <<radix, inserts, seen, history, writers>>

Done ==
  /\ pc = "returned"
  /\ pc' = "idle"
  /\ hostname' = NoHost
  /\ configs' = EmptyMap
  /\ seen' = {}
  /\ UNCHANGED <<radix, inserts, history, writers>>

Next ==
  \/ Insert
  \/ LookupCall
  \/ Done

Spec == Init /\ [][Next]_vars

\* ------------------------------- a Lookup in flight beside a single writer
\* Lookup loads r.radix at line 70 and again at line 80; the writer's store
\* at line 89 may fall before, between or after the two loads.
LookupBegin ==
  /\ pc = "idle"
  /\ \E q \in Hostnames :
       /\ hostname' = q
       /\ configs' = LookupWalk(radix, q)
  /\ pc' = "walked"
  /\ seen' = {radix}
  /\ UNCHANGED <<radix, inserts, history, writers>>

LookupEnd ==
  /\ pc = "walked"
  /\ configs' = LookupLongest(configs, radix, hostname)
  /\ pc' = "returned"
  /\ UNCHANGED <<radix, hostname, inserts, seen, history, writers>>

WriterInsert ==
  /\ inserts < MaxInserts
  /\ \E p \in Hostnames, c \in Configs :
       /\ radix' = InsertTree(radix, p, c)
       /\ Record(Replace(p, Star), c)
  /\ inserts' = inserts + 1
  /\ seen' = IF pc = "walked" THEN seen \cup {radix'} ELSE seen
  /\ UNCHANGED <<pc, hostname, configs, writers>>

NextReaders ==
  \/ WriterInsert
  \/ LookupBegin
  \/ LookupEnd
  \/ Done

SpecReaders == Init /\ [][NextReaders]_vars

\* ------------------------------------------- two writers, one Insert each
\* Line 89 evaluates r.radix.Insert(...) on the version it loads and then
\* stores the returned tree into r.radix: two steps with nothing between
\* them that keeps another writer out.
InsertBuild(w) ==
  /\ wpc[w] = "idle"
  /\ \E p \in Hostnames, c \in Configs :
       /\ wnew' = [wnew EXCEPT ![w] = InsertTree(radix, p, c)]
       /\ warg' = [warg EXCEPT ![w] = <<Replace(p, Star), c>>]
  /\ wbase' = [wbase EXCEPT ![w] = radix]
  /\ wpc' = [wpc EXCEPT ![w] = "built"]
  /\ UNCHANGED <<radix, inserts, reader, history, raced>>

InsertStore(w) ==
  /\ wpc[w] = "built"
  /\ radix' = wnew[w]
  /\ inserts' = inserts + 1
  /\ Record(warg[w][1], warg[w][2])
  /\ raced' = (raced \/ radix # wbase[w])
  /\ wpc' = [wpc EXCEPT ![w] = "done"]
  /\ UNCHANGED <<reader, wnew, warg, wbase>>

NextWriters ==
  \/ \E w \in Writers : InsertBuild(w)
  \/ \E w \in Writers : InsertStore(w)

SpecWriters == Init /\ [][NextWriters]_vars

\* ------------------------------------------------ reference vocabulary
\* The claims speak of forward (unreversed) hostnames: k is a literal
\* suffix of s.
IsSuffix(k, s) ==
  /\ Len(k) <= Len(s)
  /\ \A i \in 1..Len(k) : k[i] = s[Len(s) - Len(k) + i]

\* the canonical keys registered so far, as the caller wrote them
Stored == DOMAIN lastCfg

Stripped == Replace(hostname, Star)

SuffixesOf(s) == {k \in Stored : IsSuffix(k, s)}

Extending(s) == {k \in Stored : IsSuffix(s, k)}

Longest(S) == CHOOSE k \in S : \A j \in S : Len(j) <= Len(k)

Only(k) == [x \in {k} |-> lastCfg[k]]

Returned == pc = "returned"

\* C1: a query without '*' that has a stored suffix gets exactly one entry,
\* the longest stored key that is a suffix of the query, with its current
\* config.
C1_LongestSuffixWins ==
  (Returned /\ ~Contains(hostname, Star) /\ SuffixesOf(hostname) # {})
    => configs = Only(Longest(SuffixesOf(hostname)))

C1_Witness ==
  /\ Returned
  /\ ~Contains(hostname, Star)
  /\ hostname \in Stored
  /\ \E k \in SuffixesOf(hostname) : k # <<>> /\ k # hostname
  /\ DOMAIN configs = {hostname}

\* C2: a query with '*' whose stripped form s is a suffix of some stored
\* key gets exactly the stored keys that have s as a suffix, each with its
\* current config.
C2_WildcardFanOut ==
  (Returned /\ Contains(hostname, Star) /\ Extending(Stripped) # {})
    => /\ DOMAIN configs = Extending(Stripped)
       /\ \A k \in DOMAIN configs : configs[k] = lastCfg[k]

C2_Witness ==
  /\ Returned
  /\ Contains(hostname, Star)
  /\ \E k \in Extending(Stripped) : Len(k) > Len(Stripped)
  /\ \E k \in Stored : Len(k) < Len(Stripped)
  /\ DOMAIN configs = Extending(Stripped)

\* C3: a query with '*' whose stripped form s is a suffix of no stored key,
\* while some stored key is a suffix of s, gets exactly one entry: the
\* longest stored key that is a suffix of s.
C3_WildcardFallback ==
  (/\ Returned
   /\ Contains(hostname, Star)
   /\ Extending(Stripped) = {}
   /\ SuffixesOf(Stripped) # {})
    => configs = Only(Longest(SuffixesOf(Stripped)))

C3_Witness ==
  /\ Returned
  /\ Contains(hostname, Star)
  /\ Extending(Stripped) = {}
  /\ Cardinality(SuffixesOf(Stripped)) >= 2
  /\ \E k \in DOMAIN configs : k # <<>>

\* C4: Lookup returns exactly the matching keys of maximal specificity,
\* where k matches q when k is a suffix of s, or q has '*' and s is a
\* suffix of k, and specificity is the length of the longest common suffix.
Matches(k, q) ==
  LET s == Replace(q, Star)
  IN  \/ IsSuffix(k, s)
      \/ Contains(q, Star) /\ IsSuffix(s, k)

\* the number of trailing characters k and s share
CommonSuffix(k, s) ==
  Cardinality({n \in 1..Len(k) :
                 /\ n <= Len(s)
                 /\ \A i \in 1..n : k[Len(k) - i + 1] = s[Len(s) - i + 1]})

Specificity(k, q) == CommonSuffix(k, Replace(q, Star))

Matching(q) == {k \in Stored : Matches(k, q)}

MostSpecific(q) ==
  LET M == Matching(q)
      rank == [k \in M |-> Specificity(k, q)]
  IN  {k \in M : \A j \in M : rank[j] <= rank[k]}

C4_MostSpecificMatches ==
  Returned =>
    LET best == MostSpecific(hostname)
    IN  best # {} => /\ DOMAIN configs = best
                     /\ \A k \in best : configs[k] = lastCfg[k]

C4_Witness ==
  /\ Returned
  /\ Cardinality(MostSpecific(hostname)) >= 2
  /\ \A k \in MostSpecific(hostname) : Specificity(k, hostname) >= 1
  /\ DOMAIN configs = MostSpecific(hostname)

C6_InsertVisible ==
  (Returned /\ Stripped \in Stored)
    => /\ Stripped \in DOMAIN configs
       /\ configs[Stripped] = lastCfg[Stripped]

C6_Witness ==
  /\ Returned
  /\ Contains(hostname, Star)
  /\ Stripped \in Stored
  /\ Cardinality(DOMAIN configs) >= 2
  /\ configs[Stripped] = lastCfg[Stripped]

\* C8: on a matcher that never saw an Insert every Lookup returns the one
\* entry "" -> zero Config.
C8_EmptyStore ==
  (Returned /\ inserts = 0) => configs = [x \in {<<>>} |-> ZeroConfig]

C8_Witness ==
  /\ Returned
  /\ inserts = 0
  /\ Contains(hostname, Star)
  /\ Len(hostname) > 1
  /\ DOMAIN configs = {<<>>}

\* C9: on a non-empty store a query that no stored key matches yields a
\* result with no entry.
C9_NoMatchIsAbsent ==
  (Returned /\ Stored # {} /\ Matching(hostname) = {})
    => DOMAIN configs = {}

\* C7: a Lookup that overlaps Inserts of a single writer returns what the
\* same Lookup returns on one of the tree versions r.radix held between its
\* start and its end.
C7_SnapshotConsistent ==
  Returned => \E v \in seen : configs = Lookup(v, hostname)

\* C10: two concurrent Inserts of distinct canonical keys can both return
\* with one key missing from the store; that needs a writer storing over a
\* version it did not read, so with the Inserts one at a time every
\* returned key is present with its config.
Holds(k) == \E e \in radix : e.key = toKey(k) /\ e.val = lastCfg[k]

C10_LostOnlyWhenRaced ==
  (~raced) => \A k \in Stored : Holds(k)

C10_Witness ==
  /\ \A w \in Writers : wpc[w] = "done"
  /\ \A w \in Writers, x \in Writers : w # x => warg[w][1] # warg[x][1]
  /\ raced
  /\ Cardinality(Stored) = 2
  /\ Cardinality({k \in Stored : Holds(k)}) = 1
  /\ Cardinality(radix) = 1
====
